---- MODULE Spec2Model ----
(***************************************************************************)
(* HireFlow backend: resume scoring, the workflow orchestrator             *)
(* (process_workflow / on_resume_submit), the decision e-mail and the      *)
(* in-memory record store, modelled from src/backend.py and src/app.py.    *)
(*                                                                         *)
(* Python strings are TLA+ strings; Len, SubSeq and \o act on them as on   *)
(* sequences of characters.  Floating point ratios are exact fractions     *)
(* <<numerator, denominator>>; a percentage rounded to two decimals is an  *)
(* integer number of hundredths (8000 is 80.00).                           *)
(***************************************************************************)
EXTENDS Integers, Sequences, FiniteSets, TLC

(***************************************************************************)
(* Python str primitives used by the code.                                 *)
(***************************************************************************)
CharAt(s, i) == SubSeq(s, i, i)

Digits == {"0", "1", "2", "3", "4", "5", "6", "7", "8", "9"}

LowerLetters == {"a", "b", "c", "d", "e", "f", "g", "h", "i", "j", "k", "l", "m",
                 "n", "o", "p", "q", "r", "s", "t", "u", "v", "w", "x", "y", "z"}

UpperLetters == {"A", "B", "C", "D", "E", "F", "G", "H", "I", "J", "K", "L", "M",
                 "N", "O", "P", "Q", "R", "S", "T", "U", "V", "W", "X", "Y", "Z"}

Whitespace == {" ", "\t", "\n", "\r"}

DigitVal(c) ==
    CASE c = "0" -> 0 [] c = "1" -> 1 [] c = "2" -> 2 [] c = "3" -> 3
      [] c = "4" -> 4 [] c = "5" -> 5 [] c = "6" -> 6 [] c = "7" -> 7
      [] c = "8" -> 8 [] c = "9" -> 9

LowerChar(c) ==
    CASE c = "A" -> "a" [] c = "B" -> "b" [] c = "C" -> "c" [] c = "D" -> "d"
      [] c = "E" -> "e" [] c = "F" -> "f" [] c = "G" -> "g" [] c = "H" -> "h"
      [] c = "I" -> "i" [] c = "J" -> "j" [] c = "K" -> "k" [] c = "L" -> "l"
      [] c = "M" -> "m" [] c = "N" -> "n" [] c = "O" -> "o" [] c = "P" -> "p"
      [] c = "Q" -> "q" [] c = "R" -> "r" [] c = "S" -> "s" [] c = "T" -> "t"
      [] c = "U" -> "u" [] c = "V" -> "v" [] c = "W" -> "w" [] c = "X" -> "x"
      [] c = "Y" -> "y" [] c = "Z" -> "z" [] OTHER -> c

\* str.lower().  CHOOSE y \in {e : v \in {x}} : TRUE is e with v bound to the
\* value of x, computed once, as a Python local variable is.
RECURSIVE Lower(_)
Lower(s) ==
    IF Len(s) = 0 THEN ""
    ELSE CHOOSE y \in { LowerChar(c) \o Lower(rest) : c \in {CharAt(s, 1)},
                                                     rest \in {Tail(s)} } : TRUE

\* str.strip(): leading and trailing whitespace removed
RECURSIVE LStrip(_)
LStrip(s) == IF Len(s) > 0 /\ CharAt(s, 1) \in Whitespace THEN LStrip(Tail(s)) ELSE s

RECURSIVE RStrip(_)
RStrip(s) ==
    IF Len(s) > 0 /\ CharAt(s, Len(s)) \in Whitespace
    THEN RStrip(SubSeq(s, 1, Len(s) - 1))
    ELSE s

Strip(s) == RStrip(LStrip(s))

\* `k in s` for strings
Contains(s, k) ==
    \E i \in 1..(Len(s) - Len(k) + 1) : SubSeq(s, i, i + Len(k) - 1) = k

AllIn(s, class) == \A i \in 1..Len(s) : CharAt(s, i) \in class

(***************************************************************************)
(* validate_email: re.match of                                             *)
(*   ^[A-Za-z0-9._%+-]+@[A-Za-z0-9.-]+\.[A-Za-z]{2,}$                      *)
(* `$` also matches just before one trailing newline.                      *)
(***************************************************************************)
EmailLocalChars == LowerLetters \cup UpperLetters \cup Digits \cup {".", "_", "%", "+", "-"}

EmailDomainChars == LowerLetters \cup UpperLetters \cup Digits \cup {".", "-"}

EmailPatternMatches(s) ==
    \E at \in 2..Len(s) : \E dot \in (at + 2)..Len(s) :
        /\ CharAt(s, at) = "@"
        /\ CharAt(s, dot) = "."
        /\ AllIn(SubSeq(s, 1, at - 1), EmailLocalChars)
        /\ AllIn(SubSeq(s, at + 1, dot - 1), EmailDomainChars)
        /\ Len(s) - dot >= 2
        /\ AllIn(SubSeq(s, dot + 1, Len(s)), LowerLetters \cup UpperLetters)

validate_email(email) ==
    IF email = "" THEN FALSE
    ELSE \/ EmailPatternMatches(email)
         \/ /\ CharAt(email, Len(email)) = "\n"
            /\ EmailPatternMatches(SubSeq(email, 1, Len(email) - 1))

(***************************************************************************)
(* validate_date_str: datetime.strptime(date_str, "%Y-%m-%d") succeeds.    *)
(* strptime's directives are regular expressions tried in order:           *)
(*   %Y  \d\d\d\d                                                          *)
(*   %m  1[0-2]|0[1-9]|[1-9]                                               *)
(*   %d  3[0-1]|[1-2]\d|0[1-9]|[1-9]| [1-9]                                *)
(* then the whole string must be consumed and the date must exist.         *)
(***************************************************************************)
NonZeroDigits == Digits \ {"0"}

\* length of the text %m matches at position i (0: no match)
MonthMatch(s, i) ==
    IF i > Len(s) THEN 0
    ELSE LET a == CharAt(s, i)
             b == IF i + 1 <= Len(s) THEN CharAt(s, i + 1) ELSE ""
         IN  IF a = "1" /\ b \in {"0", "1", "2"} THEN 2
             ELSE IF a = "0" /\ b \in NonZeroDigits THEN 2
             ELSE IF a \in NonZeroDigits THEN 1
             ELSE 0

\* length of the text %d matches at position i (0: no match)
DayMatch(s, i) ==
    IF i > Len(s) THEN 0
    ELSE LET a == CharAt(s, i)
             b == IF i + 1 <= Len(s) THEN CharAt(s, i + 1) ELSE ""
         IN  IF a = "3" /\ b \in {"0", "1"} THEN 2
             ELSE IF a \in {"1", "2"} /\ b \in Digits THEN 2
             ELSE IF a = "0" /\ b \in NonZeroDigits THEN 2
             ELSE IF a \in NonZeroDigits THEN 1
             ELSE IF a = " " /\ b \in NonZeroDigits THEN 2
             ELSE 0

\* int() of a run of decimal digits
RECURSIVE ToInt(_)
ToInt(s) ==
    IF Len(s) = 0 THEN 0
    ELSE 10 * ToInt(SubSeq(s, 1, Len(s) - 1)) + DigitVal(CharAt(s, Len(s)))

IsLeap(y) == (y % 4 = 0) /\ ((y % 100 # 0) \/ (y % 400 = 0))

DaysInMonth(y, m) ==
    IF m = 2 THEN (IF IsLeap(y) THEN 29 ELSE 28)
    ELSE IF m \in {4, 6, 9, 11} THEN 30
    ELSE 31

\* The lengths %m can take at position i with the "-" of the format after it
\* (the regex backtracks from a two-character alternative to [1-9]).
MonthLens(s, i) ==
    {n \in {1, 2} : /\ MonthMatch(s, i) >= n
                    /\ (n = 2 \/ CharAt(s, i) \in NonZeroDigits)
                    /\ i + n <= Len(s)
                    /\ CharAt(s, i + n) = "-"}

strptime_ok(s) ==
    /\ Len(s) >= 8
    /\ AllIn(SubSeq(s, 1, 4), Digits)
    /\ CharAt(s, 5) = "-"
    /\ MonthLens(s, 6) # {}
    /\ LET ml == CHOOSE n \in MonthLens(s, 6) : \A k \in MonthLens(s, 6) : n >= k
           di == 6 + ml + 1
           dl == DayMatch(s, di)
           y  == ToInt(SubSeq(s, 1, 4))
           m  == ToInt(SubSeq(s, 6, 6 + ml - 1))
           d  == IF CharAt(s, di) = " "
                 THEN DigitVal(CharAt(s, di + 1))
                 ELSE ToInt(SubSeq(s, di, di + dl - 1))
       IN  /\ dl > 0
           /\ di + dl - 1 = Len(s)      \* else "unconverted data remains"
           /\ y >= 1                    \* datetime.MINYEAR
           /\ d <= DaysInMonth(y, m)    \* else "day is out of range for month"

validate_date_str(date_str) == strptime_ok(date_str)

\* two-digit text of a matched %m or %d ("5", " 5" and "05" are all "05")
Pad2(t) ==
    IF Len(t) = 1 THEN "0" \o t
    ELSE IF CharAt(t, 1) = " " THEN "0" \o CharAt(t, 2)
    ELSE t

\* strftime("%Y-%m-%d") of the date strptime read from s (strptime_ok(s) holds)
iso_date(s) ==
    LET ml == CHOOSE n \in MonthLens(s, 6) : \A k \in MonthLens(s, 6) : n >= k
    IN  SubSeq(s, 1, 4) \o "-" \o Pad2(SubSeq(s, 6, 6 + ml - 1)) \o "-"
          \o Pad2(SubSeq(s, 6 + ml + 1, Len(s)))

(***************************************************************************)
(* score_candidate.  A ratio is a fraction <<n, d>> with d > 0.            *)
(***************************************************************************)
Max(a, b) == IF a >= b THEN a ELSE b

\* min(x, 1.0) on a fraction
MinOne(f) == IF f[1] > f[2] THEN <<1, 1>> ELSE f

\* round() of the fraction n/d (d > 0) to the nearest integer, ties to even
RoundDiv(n, d) ==
    LET q == n \div d
        r == n - q * d
    IN  IF 2 * r < d THEN q
        ELSE IF 2 * r > d THEN q + 1
        ELSE IF q % 2 = 0 THEN q ELSE q + 1

\* round(100 * f, 2), in hundredths
Percent2(f) == RoundDiv(10000 * f[1], f[2])

\* f"{f*100:.1f}", in tenths
Percent1(f) == RoundDiv(1000 * f[1], f[2])

\* the dict education_rank, in its insertion order
education_rank ==
    << <<"high school", 1>>, <<"diploma", 2>>, <<"associate", 3>>,
       <<"bachelor", 4>>, <<"master", 5>>, <<"phd", 6>>, <<"doctorate", 6>> >>

\* education_rank.get(key, 0): the key itself must be a key of the dict
education_rank_get(key) ==
    IF \E i \in 1..Len(education_rank) : education_rank[i][1] = key
    THEN education_rank[CHOOSE i \in 1..Len(education_rank) : education_rank[i][1] = key][2]
    ELSE 0

\* the loop over education_rank.items() with its break: first key found in the text
first_keyword_rank(text) ==
    LET hits == {i \in 1..Len(education_rank) : Contains(text, education_rank[i][1])}
    IN  IF hits = {} THEN 0
        ELSE education_rank[CHOOSE i \in hits : \A k \in hits : i <= k][2]

skill_match_ratio_perfect_if_none(parsed_resume, job_requirements) ==
    IF job_requirements.skills = {} THEN <<1, 1>>
    ELSE << Cardinality(parsed_resume.skills \cap job_requirements.skills),
            Cardinality(job_requirements.skills) >>

skill_match_ratio(parsed_resume, job_requirements) ==
    << Cardinality(parsed_resume.skills \cap job_requirements.skills),
       Max(Cardinality(job_requirements.skills), 1) >>

experience_match_ratio_unclamped(parsed_resume, job_requirements) ==
    IF job_requirements.min_experience > 0
    THEN <<parsed_resume.experience_years, job_requirements.min_experience>>
    ELSE <<1, 1>>

experience_match_ratio_zero_if_none(parsed_resume, job_requirements) ==
    MinOne(IF job_requirements.min_experience > 0
           THEN <<parsed_resume.experience_years, job_requirements.min_experience>>
           ELSE <<0, 1>>)

experience_match_ratio(parsed_resume, job_requirements) ==
    LET candidate_exp == parsed_resume.experience_years
        exp_required  == job_requirements.min_experience
    IN  MinOne(IF exp_required > 0 THEN <<candidate_exp, exp_required>> ELSE <<1, 1>>)

required_edu_score(job_requirements) ==
    CHOOSE y \in { education_rank_get(education_required) :
                       education_required \in {Lower(job_requirements.education_level)} } : TRUE

candidate_edu_score(parsed_resume) ==
    CHOOSE y \in { first_keyword_rank(education) :
                       education \in {Lower(parsed_resume.education)} } : TRUE

\* min(c / r if r > 0 else 1.0, 1.0)
rank_ratio(c, r) == MinOne(IF r > 0 THEN <<c, r>> ELSE <<1, 1>>)

education_match_ratio(parsed_resume, job_requirements) ==
    CHOOSE y \in { rank_ratio(c, r) : c \in {candidate_edu_score(parsed_resume)},
                                     r \in {required_edu_score(job_requirements)} } : TRUE

\* round(100 * (0.4*s + 0.4*e + 0.2*d), 2), in hundredths
weighted_score(s, e, d) ==
    RoundDiv(4000 * s[1] * e[2] * d[2] + 4000 * e[1] * s[2] * d[2] + 2000 * d[1] * s[2] * e[2],
             s[2] * e[2] * d[2])

\* the dict score_candidate returns, from its three ratios
score_breakdown(s, e, d) ==
    [ score            |-> weighted_score(s, e, d),
      skill_match      |-> Percent2(s),
      experience_match |-> Percent2(e),
      explanation      |-> [ skill |-> Percent1(s), experience |-> Percent1(e),
                             education |-> Percent1(d) ] ]

score_candidate(parsed_resume, job_requirements) ==
    CHOOSE y \in { score_breakdown(s, e, d) :
                       s \in {skill_match_ratio(parsed_resume, job_requirements)},
                       e \in {experience_match_ratio(parsed_resume, job_requirements)},
                       d \in {education_match_ratio(parsed_resume, job_requirements)} } : TRUE

(***************************************************************************)
(* State.                                                                  *)
(***************************************************************************)
VARIABLES
    adapters,        \* which collaborator implementation is bound: "mock" or "any"
    pc,              \* thread -> position in process_workflow
    args,            \* thread -> arguments of its process_workflow call
    frame,           \* thread -> local variables of the call
    workflow_log,    \* thread -> the workflow_log dict being built
    exc,             \* thread -> the exception in flight
    result,          \* thread -> what process_workflow returned
    effects,         \* thread -> side effects the call has performed, in order:
                     \*   events created, messages sent, records stored
    failed,          \* thread -> collaborator calls that returned false or threw
    _db,             \* ATSDatabase._db, a dict as a set of <<key, value>> pairs
    last_upsert,     \* key -> the candidate_data of the latest store under it
    score_args,      \* arguments of a score_candidate call
    score_result,    \* what it returned
    decision_args,   \* the request body of POST /api/decision
    decision_result, \* what the handler did with it
    JOBS,            \* app.JOBS: job_id -> the job dict, or Absent
    job_thread,      \* job_id -> position and arguments of its _run_workflow_job thread
    poll             \* the response of the latest GET /api/workflow/<job_id>

vars == << adapters, pc, args, frame, workflow_log, exc, result, effects, failed,
           _db, last_upsert, score_args, score_result, decision_args, decision_result,
           JOBS, job_thread, poll >>

workflow_vars == << adapters, pc, args, frame, workflow_log, exc, result, effects,
                    failed, _db, last_upsert >>

score_vars == << score_args, score_result >>

decision_vars == << decision_args, decision_result >>

job_vars == << JOBS, job_thread, poll >>

None == [none |-> TRUE]

Threads == {"t1", "t2"}

(***************************************************************************)
(* Inputs.  A resume text is given by what the extractors of parse_resume  *)
(* find in it; NonString is a resume_text that is no str (JSON null, a     *)
(* number), NonDict a job_requirements that is no dict.                    *)
(***************************************************************************)
NonString == [non_string |-> TRUE]

NonDict == [non_dict |-> TRUE]

Resume(name, emails, skills, years, education) ==
    [ name |-> name, email_candidates |-> emails, skills |-> skills,
      experience_years |-> years, education |-> education ]

Requirements(skills, min_experience, education_level) ==
    [ skills |-> skills, min_experience |-> min_experience,
      education_level |-> education_level ]

Resumes ==
    { Resume("Ann Lee", <<"ann@x.io">>, {"python", "java"}, 3, "Bachelor of Science"),
      Resume("Ann B Lee", <<"ann@x.io">>, {}, 5, "PhD in Physics"),
      Resume("Bob", <<"bob@x", "bob@x.io">>, {"python"}, 1, "High School"),
      Resume("Unknown", <<>>, {}, 0, "Not specified"),
      NonString }

JobRequirements ==
    { Requirements({"python", "java"}, 2, "bachelor"),
      Requirements({}, 0, ""),
      Requirements({"python", "java", "aws"}, 4, "master"),
      NonDict }

Dates == {"", "2024-01-01", "2024/01/01", "2024-1-5", "2024-02-30"}

\* the inputs of the concurrent runs
ConcurrentResumes ==
    { Resume("Ann Lee", <<"ann@x.io">>, {"python", "java"}, 3, "Bachelor of Science"),
      Resume("Ann B Lee", <<"ann@x.io">>, {}, 5, "PhD in Physics"),
      Resume("Unknown", <<>>, {}, 0, "Not specified") }

ConcurrentRequirements == { Requirements({"python", "java"}, 2, "bachelor") }

ConcurrentDates == {"", "2024/01/01"}

(***************************************************************************)
(* parse_resume: the first e-mail candidate that passes validate_email     *)
(* (else ""), and the extracted fields.  phone, work_history and summary   *)
(* are not read by the workflow and are left out.                          *)
(***************************************************************************)
first_valid_email(candidates) ==
    LET ok == {i \in 1..Len(candidates) : validate_email(candidates[i])}
    IN  IF ok = {} THEN "" ELSE candidates[CHOOSE i \in ok : \A k \in ok : i <= k]

parse_resume(resume_text) ==
    [ name             |-> resume_text.name,
      email            |-> first_valid_email(resume_text.email_candidates),
      skills           |-> resume_text.skills,
      experience_years |-> resume_text.experience_years,
      education        |-> resume_text.education ]

(***************************************************************************)
(* Collaborators.  The shipped classes are mocks "to be replaced with real *)
(* integrations": the mock always succeeds, any other implementation of    *)
(* the same call may also return false (or no slot) or raise.              *)
(***************************************************************************)
fetch_outcomes == IF adapters = "mock" THEN {"slots"} ELSE {"slots", "empty", "raise"}

create_outcomes == IF adapters = "mock" THEN {"ok"} ELSE {"ok", "raise"}

send_outcomes == IF adapters = "mock" THEN {"true"} ELSE {"true", "false", "raise"}

upsert_outcomes == IF adapters = "mock" THEN {"ok"} ELSE {"ok", "raise"}

Exception(type, msg) == [type |-> type, msg |-> msg]

\* the slot CalendarAPI.fetch_availability returns first: base_date + 9 hours
first_slot(preferred_date) ==
    (IF strptime_ok(preferred_date) THEN iso_date(preferred_date) ELSE "<utcnow>")
        \o "T09:00:00"

\* str.replace(' ', '_')
RECURSIVE replace_spaces(_)
replace_spaces(s) ==
    IF Len(s) = 0 THEN ""
    ELSE (IF CharAt(s, 1) = " " THEN "_" ELSE CharAt(s, 1)) \o replace_spaces(Tail(s))

create_event_link(candidate_name, slot) ==
    "https://calendar.example.com/event/" \o replace_spaces(candidate_name) \o "/" \o slot

(***************************************************************************)
(* ATSDatabase: dict assignment, and the key of upsert_candidate.          *)
(***************************************************************************)
RandLow == 1000

\* how many of the values of random.randint(1000, 9999) the model draws
IdChoices == 2

generated_ids == { IF n = RandLow THEN "id_1000" ELSE IF n = RandLow + 1 THEN "id_1001"
                   ELSE IF n = RandLow + 2 THEN "id_1002" ELSE "id_1003"
                   : n \in RandLow..(RandLow + IdChoices - 1) }

\* candidate_data.get("email") or f"id_{random.randint(1000,9999)}"
candidate_ids(candidate_data) ==
    IF candidate_data.email # "" THEN {candidate_data.email} ELSE generated_ids

dict_set_if_absent(d, k, v) == IF \E p \in d : p[1] = k THEN d ELSE d \cup {<<k, v>>}

\* d[k] = v
dict_set(d, k, v) == {p \in d : p[1] # k} \cup {<<k, v>>}

dict_keys(d) == {p[1] : p \in d}

(***************************************************************************)
(* process_workflow, one thread r running one call; its steps are the      *)
(* places where the call can raise or touch state other threads see.       *)
(***************************************************************************)
Threshold == 60

passes_threshold_strict(score) == score > 100 * Threshold

\* scored["score"] >= 60, on a score in hundredths
passes_threshold(score) == score >= 100 * Threshold

InitFrame ==
    [ parsed |-> None, scored |-> None, confirmed_slot |-> "",
      calendar_event_link |-> "", slack_status |-> FALSE, notify |-> "threshold",
      candidate_id |-> "" ]

Append1(log, entry) == [log EXCEPT !.actions = Append(@, entry)]

\* an exception leaves the try block of process_workflow
Raise(r, e) ==
    /\ exc' = [exc EXCEPT ![r] = e]
    /\ pc' = [pc EXCEPT ![r] = "except"]

\* a caller invokes process_workflow(resume_text, job_requirements, preferred_interview_date)
process_workflow_call(r, resumes, requirements, dates) ==
    /\ pc[r] \in {"idle", "done"}
    /\ \E t \in resumes : \E j \in requirements : \E d \in dates :
          args' = [args EXCEPT ![r] = [ resume_text |-> t, job_requirements |-> j,
                                        preferred_interview_date |-> d ]]
    /\ pc' = [pc EXCEPT ![r] = "validate_date"]
    /\ frame' = [frame EXCEPT ![r] = InitFrame]
    /\ workflow_log' = [workflow_log EXCEPT ![r] = None]
    /\ exc' = [exc EXCEPT ![r] = None]
    /\ result' = [result EXCEPT ![r] = None]
    /\ effects' = [effects EXCEPT ![r] = <<>>]
    /\ failed' = [failed EXCEPT ![r] = {}]
    /\ UNCHANGED << adapters, _db, last_upsert, score_vars, decision_vars >>

\* if preferred_interview_date and not validate_date_str(...): raise ValueError
validate_date(r) ==
    /\ pc[r] = "validate_date"
    /\ LET d == args[r].preferred_interview_date
       IN  IF d # "" /\ ~validate_date_str(d)
           THEN Raise(r, Exception("ValueError", "preferred_interview_date must be YYYY-MM-DD"))
           ELSE /\ pc' = [pc EXCEPT ![r] = "parse_resume"]
                /\ exc' = exc
    /\ UNCHANGED << adapters, args, frame, workflow_log, result, effects, failed,
                    _db, last_upsert, score_vars, decision_vars, job_vars >>

\* parsed = parse_resume(resume_text); re.findall raises TypeError on a non-str
do_parse_resume(r) ==
    /\ pc[r] = "parse_resume"
    /\ IF args[r].resume_text = NonString
       THEN /\ Raise(r, Exception("TypeError", "expected string or bytes-like object"))
            /\ frame' = frame
       ELSE /\ frame' = [frame EXCEPT ![r].parsed = parse_resume(args[r].resume_text)]
            /\ pc' = [pc EXCEPT ![r] = "score_candidate"]
            /\ exc' = exc
    /\ UNCHANGED << adapters, args, workflow_log, result, effects, failed,
                    _db, last_upsert, score_vars, decision_vars, job_vars >>

\* scored = score_candidate(parsed, job_requirements); workflow_log = {...};
\* if scored["score"] >= 60: ... else: ...
do_score_candidate(r) ==
    /\ pc[r] = "score_candidate"
    /\ IF args[r].job_requirements = NonDict
       THEN /\ Raise(r, Exception("AttributeError", "object has no attribute 'get'"))
            /\ UNCHANGED << frame, workflow_log >>
       ELSE \E scored \in {score_candidate(frame[r].parsed, args[r].job_requirements)} :
                /\ frame' = [frame EXCEPT ![r].scored = scored]
                /\ workflow_log' = [workflow_log EXCEPT ![r] =
                       [ parsed_resume |-> frame[r].parsed, score_result |-> scored,
                         actions |-> <<>> ]]
                /\ pc' = [pc EXCEPT ![r] = IF passes_threshold(scored.score)
                                           THEN "fetch_availability"
                                           ELSE "send_message"]
                /\ exc' = exc
    /\ UNCHANGED << adapters, args, result, effects, failed,
                    _db, last_upsert, score_vars, decision_vars, job_vars >>

schedule_entry(slot, link) ==
    [ action |-> "schedule_interview",
      details |-> [confirmed_slot |-> slot, calendar_event_link |-> link] ]

\* schedule_interview: available_slots = CalendarAPI.fetch_availability(preferred_date)
fetch_availability(r) ==
    /\ pc[r] = "fetch_availability"
    /\ \E o \in fetch_outcomes :
         CASE o = "raise" ->
                /\ Raise(r, Exception("RuntimeError", "calendar unavailable"))
                /\ failed' = [failed EXCEPT ![r] = @ \cup {"fetch_availability"}]
                /\ UNCHANGED << frame, workflow_log >>
           [] o = "empty" ->
                /\ failed' = [failed EXCEPT ![r] = @ \cup {"fetch_availability"}]
                /\ frame' = [frame EXCEPT ![r].confirmed_slot = "No slots available"]
                /\ workflow_log' = [workflow_log EXCEPT ![r] =
                       Append1(@, schedule_entry("No slots available", ""))]
                /\ pc' = [pc EXCEPT ![r] = "upsert_key"]
                /\ exc' = exc
           [] o = "slots" ->
                /\ frame' = [frame EXCEPT ![r].confirmed_slot =
                                 first_slot(args[r].preferred_interview_date)]
                /\ pc' = [pc EXCEPT ![r] = "create_event"]
                /\ UNCHANGED << exc, failed, workflow_log >>
    /\ UNCHANGED << adapters, args, result, effects, _db, last_upsert,
                    score_vars, decision_vars, job_vars >>

\* calendar_event_link = CalendarAPI.create_event(name, email, confirmed_slot)
create_event(r) ==
    /\ pc[r] = "create_event"
    /\ \E o \in create_outcomes :
         IF o = "raise"
         THEN /\ Raise(r, Exception("RuntimeError", "calendar unavailable"))
              /\ failed' = [failed EXCEPT ![r] = @ \cup {"create_event"}]
              /\ UNCHANGED << frame, effects >>
         ELSE /\ frame' = [frame EXCEPT ![r].calendar_event_link =
                               create_event_link(frame[r].parsed.name, frame[r].confirmed_slot)]
              /\ effects' = [effects EXCEPT ![r] = Append(@, "create_event")]
              /\ pc' = [pc EXCEPT ![r] = "schedule_email"]
              /\ UNCHANGED << exc, failed >>
    /\ UNCHANGED << adapters, args, workflow_log, result, _db, last_upsert,
                    score_vars, decision_vars, job_vars >>

\* EmailService.send_email(candidate_email, "Interview Scheduled", ...): the
\* returned bool is not read; then return {...} and the append of line 365
schedule_email(r) ==
    /\ pc[r] = "schedule_email"
    /\ \E o \in send_outcomes :
         IF o = "raise"
         THEN /\ Raise(r, Exception("RuntimeError", "smtp unavailable"))
              /\ failed' = [failed EXCEPT ![r] = @ \cup {"schedule_email"}]
              /\ UNCHANGED << workflow_log, effects >>
         ELSE /\ effects' = [effects EXCEPT ![r] =
                     IF o = "true" THEN Append(@, "send_email") ELSE @]
              /\ failed' = [failed EXCEPT ![r] =
                     IF o = "false" THEN @ \cup {"schedule_email"} ELSE @]
              /\ workflow_log' = [workflow_log EXCEPT ![r] =
                     Append1(@, schedule_entry(frame[r].confirmed_slot,
                                               frame[r].calendar_event_link))]
              /\ pc' = [pc EXCEPT ![r] = "upsert_key"]
              /\ exc' = exc
    /\ UNCHANGED << adapters, args, frame, result, _db, last_upsert,
                    score_vars, decision_vars, job_vars >>

\* the name of a notify_hr call's collaborator failure
notify_tag(r, call) ==
    (IF frame[r].notify = "threshold" THEN "notify_hr." ELSE "final_notify.") \o call

\* notify_hr: slack_status = SlackService.send_message("#hr-channel", message)
send_message(r) ==
    /\ pc[r] = "send_message"
    /\ \E o \in send_outcomes :
         IF o = "raise"
         THEN /\ Raise(r, Exception("RuntimeError", "slack unavailable"))
              /\ failed' = [failed EXCEPT ![r] = @ \cup {notify_tag(r, "send_message")}]
              /\ UNCHANGED << frame, effects >>
         ELSE /\ frame' = [frame EXCEPT ![r].slack_status = (o = "true")]
              /\ effects' = [effects EXCEPT ![r] =
                     IF o = "true" THEN Append(@, "send_message") ELSE @]
              /\ failed' = [failed EXCEPT ![r] =
                     IF o = "false" THEN @ \cup {notify_tag(r, "send_message")} ELSE @]
              /\ pc' = [pc EXCEPT ![r] = "send_email"]
              /\ exc' = exc
    /\ UNCHANGED << adapters, args, workflow_log, result, _db, last_upsert,
                    score_vars, decision_vars, job_vars >>

\* status = "success" if slack_status and email_status else "failure"
notify_status(slack_status, email_status) ==
    IF slack_status /\ email_status THEN "success" ELSE "failure"

\* notify_hr: email_status = EmailService.send_email("hr@example.com", ...);
\* return {"status": status}, and the append of line 368 or 373
send_email(r) ==
    /\ pc[r] = "send_email"
    /\ \E o \in send_outcomes :
         IF o = "raise"
         THEN /\ Raise(r, Exception("RuntimeError", "smtp unavailable"))
              /\ failed' = [failed EXCEPT ![r] = @ \cup {notify_tag(r, "send_email")}]
              /\ UNCHANGED << workflow_log, effects >>
         ELSE /\ effects' = [effects EXCEPT ![r] =
                     IF o = "true" THEN Append(@, "send_email") ELSE @]
              /\ failed' = [failed EXCEPT ![r] =
                     IF o = "false" THEN @ \cup {notify_tag(r, "send_email")} ELSE @]
              /\ workflow_log' = [workflow_log EXCEPT ![r] =
                     Append1(@, [ action |-> "notify_hr",
                                  details |-> [status |->
                                      notify_status(frame[r].slack_status, o = "true")] ])]
              /\ pc' = [pc EXCEPT ![r] = IF frame[r].notify = "threshold"
                                         THEN "upsert_key" ELSE "return"]
              /\ exc' = exc
    /\ UNCHANGED << adapters, args, frame, result, _db, last_upsert,
                    score_vars, decision_vars, job_vars >>

\* update_ats -> ATSDatabase.upsert_candidate: candidate_id = email or a random id
upsert_key(r) ==
    /\ pc[r] = "upsert_key"
    /\ \E o \in upsert_outcomes :
         IF o = "raise"
         THEN /\ Raise(r, Exception("RuntimeError", "record store unavailable"))
              /\ failed' = [failed EXCEPT ![r] = @ \cup {"upsert_candidate"}]
              /\ frame' = frame
         ELSE /\ \E id \in candidate_ids(frame[r].parsed) :
                     frame' = [frame EXCEPT ![r].candidate_id = id]
              /\ pc' = [pc EXCEPT ![r] = "upsert_store"]
              /\ UNCHANGED << exc, failed >>
    /\ UNCHANGED << adapters, args, workflow_log, result, effects, _db, last_upsert,
                    score_vars, decision_vars, job_vars >>

\* cls._db[candidate_id] = candidate_data; return "success"; the append of line 370
upsert_store(r) ==
    /\ pc[r] = "upsert_store"
    /\ _db' = dict_set(_db, frame[r].candidate_id, frame[r].parsed)
    /\ last_upsert' = [k \in DOMAIN last_upsert \cup {frame[r].candidate_id} |->
                          IF k = frame[r].candidate_id THEN frame[r].parsed
                          ELSE last_upsert[k]]
    /\ workflow_log' = [workflow_log EXCEPT ![r] =
           Append1(@, [action |-> "update_ats", details |-> [status |-> "success"]])]
    /\ effects' = [effects EXCEPT ![r] = Append(@, "upsert_candidate")]
    /\ frame' = [frame EXCEPT ![r].notify = "final"]
    /\ pc' = [pc EXCEPT ![r] = "send_message"]
    /\ UNCHANGED << adapters, args, exc, result, failed, score_vars, decision_vars, job_vars >>

\* return {"ok": True, "workflow": result}
do_return(r) ==
    /\ pc[r] = "return"
    /\ result' = [result EXCEPT ![r] = [ok |-> TRUE, workflow |-> workflow_log[r]]]
    /\ pc' = [pc EXCEPT ![r] = "done"]
    /\ UNCHANGED << adapters, args, frame, workflow_log, exc, effects, failed,
                    _db, last_upsert, score_vars, decision_vars, job_vars >>

catches_value_error_only(e) == e.type = "ValueError"

\* the classes `except Exception` catches
catches(e) == e.type \in {"ValueError", "TypeError", "AttributeError", "RuntimeError"}

\* except Exception as e: return {"ok": False, "error": str(e)}
do_except(r) ==
    /\ pc[r] = "except"
    /\ IF catches(exc[r])
       THEN /\ result' = [result EXCEPT ![r] = [ok |-> FALSE, error |-> exc[r].msg]]
            /\ pc' = [pc EXCEPT ![r] = "done"]
       ELSE /\ result' = result
            /\ pc' = [pc EXCEPT ![r] = "raised"]
    /\ UNCHANGED << adapters, args, frame, workflow_log, exc, effects, failed,
                    _db, last_upsert, score_vars, decision_vars, job_vars >>

step(r) ==
    \/ validate_date(r)
    \/ do_parse_resume(r)
    \/ do_score_candidate(r)
    \/ fetch_availability(r)
    \/ create_event(r)
    \/ schedule_email(r)
    \/ send_message(r)
    \/ send_email(r)
    \/ upsert_key(r)
    \/ upsert_store(r)
    \/ do_return(r)
    \/ do_except(r)

InitWorkflow(a) ==
    /\ adapters = a
    /\ pc = [r \in Threads |-> "idle"]
    /\ args = [r \in Threads |-> None]
    /\ frame = [r \in Threads |-> InitFrame]
    /\ workflow_log = [r \in Threads |-> None]
    /\ exc = [r \in Threads |-> None]
    /\ result = [r \in Threads |-> None]
    /\ effects = [r \in Threads |-> <<>>]
    /\ failed = [r \in Threads |-> {}]
    /\ _db = {}
    /\ last_upsert = [k \in {} |-> None]

InitScoreIdle ==
    /\ score_args = None
    /\ score_result = None

InitDecisionIdle ==
    /\ decision_args = None
    /\ decision_result = None

\* a key that is not in a dict
Absent == [absent |-> TRUE]

\* uuid.uuid4().hex is new on every request: a job is known by its thread
JobIds == Threads

\* JOBS = {} and no job thread
InitJobsIdle ==
    /\ JOBS = [j \in JobIds |-> Absent]
    /\ job_thread = [j \in JobIds |-> [pc |-> "none", args |-> None]]
    /\ poll = None

(***************************************************************************)
(* Spec: one caller running process_workflow, call after call, against any *)
(* implementation of the collaborators.                                    *)
(***************************************************************************)
Init == InitWorkflow("any") /\ InitScoreIdle /\ InitDecisionIdle /\ InitJobsIdle

Next ==
    \/ process_workflow_call("t1", Resumes, JobRequirements, Dates) /\ UNCHANGED job_vars
    \/ step("t1")

Spec == Init /\ [][Next]_vars

(***************************************************************************)
(* SpecMock: the same caller against the shipped mock collaborators, which *)
(* always succeed.                                                         *)
(***************************************************************************)
InitMock == InitWorkflow("mock") /\ InitScoreIdle /\ InitDecisionIdle /\ InitJobsIdle

SpecMock == InitMock /\ [][Next]_vars

(***************************************************************************)
(* SpecConcurrent: the threads run process_workflow concurrently against   *)
(* the shipped mock collaborators and share ATSDatabase._db.               *)
(***************************************************************************)
InitConcurrent == InitWorkflow("mock") /\ InitScoreIdle /\ InitDecisionIdle /\ InitJobsIdle

NextConcurrent ==
    \E r \in Threads :
        \/ /\ process_workflow_call(r, ConcurrentResumes, ConcurrentRequirements,
                                    ConcurrentDates)
           /\ UNCHANGED job_vars
        \/ step(r)

SpecConcurrent == InitConcurrent /\ [][NextConcurrent]_vars

(***************************************************************************)
(* SpecScore: POST /api/score, score_candidate applied to one candidate    *)
(* record and one set of job requirements.  Years are whole numbers.       *)
(***************************************************************************)
MaxExperience == 4

MaxMinExperience == 3

SkillVocabulary == {"python", "java", "aws"}

RequiredSkillSets == { {}, {"python"}, {"python", "java"}, {"python", "java", "sql"} }

ExperienceYears == (-1)..MaxExperience

MinExperiences == 0..MaxMinExperience

Educations ==
    { "", "Not specified", "Bachelor of Science", "MASTER of Arts",
      "High School Diploma", "Masters degree after a bachelor", "PhD" }

EducationLevels ==
    { "", "bachelor", "Bachelor's degree", "Master", "PHD", "high school", "mba" }

InitScore ==
    /\ InitWorkflow("mock")
    /\ InitDecisionIdle
    /\ InitJobsIdle
    /\ score_args \in
         [ parsed_resume :
               [ skills : SUBSET SkillVocabulary, experience_years : ExperienceYears,
                 education : Educations ],
           job_requirements :
               [ skills : RequiredSkillSets, min_experience : MinExperiences,
                 education_level : EducationLevels ] ]
    /\ score_result = None

\* result = score_candidate(parsed, job_requirements)
api_score ==
    /\ score_result = None
    /\ score_result' = score_candidate(score_args.parsed_resume, score_args.job_requirements)
    /\ UNCHANGED << workflow_vars, score_args, decision_vars, job_vars >>

NextScore == api_score

SpecScore == InitScore /\ [][NextScore]_vars

(***************************************************************************)
(* SpecDecision: POST /api/decision, send_decision_email on one request.   *)
(***************************************************************************)
DecisionEmails ==
    { "", "ann@x.io", "Ann.Lee+hr@X-y.org", "ann@x.io\n", "ann@x", "not-an-email",
      "a b@x.io" }

DecisionValues ==
    { "accept", "reject", " Accept ", "REJECT\n", "", "maybe", "accepted", "acc ept" }

DecisionRoles == { "", "Engineer" }

\* role or 'Application'
role_or_default(role) == IF role = "" THEN "Application" ELSE role

decision_subject(decision_lower, role) ==
    "Application update: " \o role_or_default(role) \o
        (IF decision_lower = "accept" THEN " - Interview Invitation" ELSE " - Decision")

decision_try_no_email_check(candidate_email, decision, role, outcome) ==
    LET decision_lower == Lower(Strip(decision))
        call == [to |-> candidate_email, subject |-> decision_subject(decision_lower, role)]
    IN  IF candidate_email = ""
        THEN [ exc |-> Exception("ValueError", "Invalid candidate email"),
               returned |-> None, calls |-> <<>> ]
        ELSE IF decision_lower \notin {"accept", "reject"}
        THEN [ exc |-> Exception("ValueError", "decision must be \"accept\" or \"reject\""),
               returned |-> None, calls |-> <<>> ]
        ELSE IF outcome = "raise"
        THEN [ exc |-> Exception("RuntimeError", "smtp unavailable"),
               returned |-> None, calls |-> <<call>> ]
        ELSE [ exc |-> None,
               returned |-> [status |-> IF outcome = "true" THEN "sent" ELSE "failed"],
               calls |-> <<call>> ]

\* the try block of send_decision_email with EmailService.send_email ending as
\* `outcome`: the exception it raised (or None), what it returned, the send_email
\* calls it made
decision_try(candidate_email, decision, role, outcome) ==
    LET decision_lower == Lower(Strip(decision))
        call == [to |-> candidate_email, subject |-> decision_subject(decision_lower, role)]
    IN  IF candidate_email = "" \/ ~validate_email(candidate_email)
        THEN [ exc |-> Exception("ValueError", "Invalid candidate email"),
               returned |-> None, calls |-> <<>> ]
        ELSE IF decision_lower \notin {"accept", "reject"}
        THEN [ exc |-> Exception("ValueError", "decision must be \"accept\" or \"reject\""),
               returned |-> None, calls |-> <<>> ]
        ELSE IF outcome = "raise"
        THEN [ exc |-> Exception("RuntimeError", "smtp unavailable"),
               returned |-> None, calls |-> <<call>> ]
        ELSE [ exc |-> None,
               returned |-> [status |-> IF outcome = "true" THEN "sent" ELSE "failed"],
               calls |-> <<call>> ]

\* try: ... except Exception as e: return {"status": "error", "error": str(e)}
send_decision_email(candidate_email, decision, role, outcome) ==
    LET t == decision_try(candidate_email, decision, role, outcome)
    IN  IF t.exc = None
        THEN [ returned |-> t.returned, calls |-> t.calls, raised |-> FALSE ]
        ELSE IF catches(t.exc)
        THEN [ returned |-> [status |-> "error", error |-> t.exc.msg],
               calls |-> t.calls, raised |-> FALSE ]
        ELSE [ returned |-> None, calls |-> t.calls, raised |-> TRUE ]

InitDecision ==
    /\ InitWorkflow("any")
    /\ InitScoreIdle
    /\ InitJobsIdle
    /\ decision_args \in [ candidate_email : DecisionEmails, decision : DecisionValues,
                           role : DecisionRoles ]
    /\ decision_result = None

\* res = send_decision_email(...); ok = res.get('status') in ('sent', 'success')
api_decision ==
    /\ decision_result = None
    /\ \E o \in send_outcomes :
         LET r == send_decision_email(decision_args.candidate_email, decision_args.decision,
                                      decision_args.role, o)
         IN  decision_result' =
                 IF r.raised
                 THEN [ ok |-> FALSE, result |-> None, calls |-> r.calls, raised |-> TRUE ]
                 ELSE [ ok |-> r.returned.status \in {"sent", "success"},
                        result |-> r.returned, calls |-> r.calls, raised |-> FALSE ]
    /\ UNCHANGED << workflow_vars, score_vars, decision_args, job_vars >>

NextDecision == api_decision

SpecDecision == InitDecision /\ [][NextDecision]_vars

(***************************************************************************)
(* SpecJobs: POST /api/workflow starts one daemon thread per request, which *)
(* runs _run_workflow_job against any implementation of the collaborators;  *)
(* GET /api/workflow/<job_id> is served by other threads at any moment.     *)
(* A job dict is a function from its keys; 'created_at' is a clock reading  *)
(* nothing reads and is left out.                                           *)
(***************************************************************************)
JobResumes ==
    { Resume("Ann Lee", <<"ann@x.io">>, {"python", "java"}, 3, "Bachelor of Science"),
      NonString }

JobDates == {"", "2024/01/01"}

\* d[k] = v on a dict
dict_with(d, k, v) == [x \in DOMAIN d \cup {k} |-> IF x = k THEN v ELSE d[x]]

has_key(d, k) == k \in DOMAIN d

terminal_status_keeps_running(p) == "running"

\* the status the job thread writes: 'done' after process_workflow returned,
\* 'error' in the except branch
terminal_status(p) == IF p = "done" THEN "done" ELSE "error"

\* api_workflow: JOBS[job_id] = {'status': 'running', ...}; t.start()
api_workflow(j) ==
    /\ JOBS[j] = Absent
    /\ JOBS' = [JOBS EXCEPT ![j] = [status |-> "running"]]
    /\ \E t \in JobResumes : \E q \in ConcurrentRequirements : \E d \in JobDates :
          job_thread' = [job_thread EXCEPT ![j] =
              [pc |-> "start", args |-> [ resume_text |-> t, job_requirements |-> q,
                                          preferred_date |-> d ]]]
    /\ UNCHANGED << workflow_vars, score_vars, decision_vars, poll >>

\* the thread enters result = process_workflow(resume_text, job_requirements, preferred_date)
job_call(j) ==
    /\ job_thread[j].pc = "start"
    /\ process_workflow_call(j, {job_thread[j].args.resume_text},
                                {job_thread[j].args.job_requirements},
                                {job_thread[j].args.preferred_date})
    /\ job_thread' = [job_thread EXCEPT ![j].pc = "call"]
    /\ UNCHANGED << JOBS, poll >>

\* JOBS[job_id]['status'] = 'done', or = 'error' in the except branch
job_status(j) ==
    /\ job_thread[j].pc = "call"
    /\ pc[j] \in {"done", "raised"}
    /\ JOBS' = [JOBS EXCEPT ![j] = dict_with(@, "status", terminal_status(pc[j]))]
    /\ job_thread' = [job_thread EXCEPT ![j].pc = "payload"]
    /\ UNCHANGED << workflow_vars, score_vars, decision_vars, poll >>

\* JOBS[job_id]['result'] = result, or ['error'] = str(e) in the except branch
job_payload(j) ==
    /\ job_thread[j].pc = "payload"
    /\ JOBS' = [JOBS EXCEPT ![j] =
                   IF pc[j] = "done" THEN dict_with(@, "result", result[j])
                   ELSE dict_with(@, "error", exc[j].msg)]
    /\ job_thread' = [job_thread EXCEPT ![j].pc = "exit"]
    /\ UNCHANGED << workflow_vars, score_vars, decision_vars, poll >>

\* the steps of the thread of job j
_run_workflow_job(j) ==
    \/ job_call(j)
    \/ step(j)
    \/ job_status(j)
    \/ job_payload(j)

\* job = JOBS.get(job_id); 404 if not job, else the job dict as it is now
api_workflow_status(j) ==
    /\ poll' = IF JOBS[j] = Absent
               THEN [job_id |-> j, code |-> 404, ok |-> FALSE, error |-> "job not found"]
               ELSE [job_id |-> j, code |-> 200, ok |-> TRUE, job |-> JOBS[j]]
    /\ UNCHANGED << workflow_vars, score_vars, decision_vars, JOBS, job_thread >>

InitJobs == InitWorkflow("any") /\ InitScoreIdle /\ InitDecisionIdle /\ InitJobsIdle

NextJobs ==
    \E j \in JobIds :
        \/ api_workflow(j)
        \/ _run_workflow_job(j)
        \/ api_workflow_status(j)

SpecJobs == InitJobs /\ [][NextJobs]_vars

\* SpecJobs with each started thread being scheduled again and again
SpecJobsFair == SpecJobs /\ \A j \in JobIds : WF_vars(_run_workflow_job(j))

(***************************************************************************)
(* Properties of the workflow (Spec).                                      *)
(***************************************************************************)
Returned(r) == pc[r] = "done"

Succeeded(r) == Returned(r) /\ result[r].ok

\* C1: every successful run logs exactly three actions, in order: schedule_interview
\* when the score is at least 60 (60 included) and notify_hr when it is below,
\* then update_ats, then the closing notify_hr.
C1_ActionLogShape ==
    \A r \in Threads :
        Succeeded(r) =>
            LET a  == result[r].workflow.actions
                sc == result[r].workflow.score_result.score
            IN  /\ Len(a) = 3
                /\ a[1].action = (IF sc >= 6000 THEN "schedule_interview" ELSE "notify_hr")
                /\ a[2].action = "update_ats"
                /\ a[3].action = "notify_hr"

\* a successful run whose score is exactly 60.00
C1_Witness ==
    \E r \in Threads :
        /\ Succeeded(r)
        /\ result[r].workflow.score_result.score = 6000
        /\ result[r].workflow.actions[1].action = "schedule_interview"

\* "YYYY-MM-DD": four, two and two digits with "-" between, naming a real date
is_yyyy_mm_dd(s) ==
    /\ Len(s) = 10
    /\ CharAt(s, 5) = "-"
    /\ CharAt(s, 8) = "-"
    /\ AllIn(SubSeq(s, 1, 4) \o SubSeq(s, 6, 7) \o SubSeq(s, 9, 10), Digits)
    /\ ToInt(SubSeq(s, 1, 4)) >= 1
    /\ ToInt(SubSeq(s, 6, 7)) \in 1..12
    /\ ToInt(SubSeq(s, 9, 10)) \in 1..DaysInMonth(ToInt(SubSeq(s, 1, 4)), ToInt(SubSeq(s, 6, 7)))

\* C2: a call with a non-empty preferred_interview_date that is no valid YYYY-MM-DD
\* date returns ok=False with an error and no workflow log, and has caused no side
\* effect: nothing created or sent, nothing stored in the record store.
C2_MalformedDateFails ==
    \A r \in Threads :
        ( /\ Returned(r)
          /\ args[r].preferred_interview_date # ""
          /\ ~is_yyyy_mm_dd(args[r].preferred_interview_date) )
        => /\ result[r].ok = FALSE
           /\ result[r].error # ""
           /\ "workflow" \notin DOMAIN result[r]
           /\ effects[r] = <<>>

\* C3: process_workflow never raises; it returns ok=False with the message of the
\* exception when a step raised, and ok=True with the workflow log otherwise.
C3_NeverRaises ==
    \A r \in Threads :
        /\ pc[r] # "raised"
        /\ Returned(r) =>
              /\ "ok" \in DOMAIN result[r]
              /\ exc[r] # None => /\ result[r].ok = FALSE
                                  /\ result[r].error = exc[r].msg
              /\ exc[r] = None => /\ result[r].ok = TRUE
                                  /\ result[r].workflow = workflow_log[r]
                                  /\ workflow_log[r] # None

\* a run in which a collaborator raised has returned
C3_Witness ==
    \E r \in Threads :
        /\ Returned(r)
        /\ exc[r] # None
        /\ exc[r].type = "RuntimeError"
        /\ result[r].ok = FALSE

\* which entry of the action log a collaborator call belongs to
entry_of(call) ==
    IF call \in {"fetch_availability", "create_event", "schedule_email",
                 "notify_hr.send_message", "notify_hr.send_email"} THEN 1
    ELSE IF call = "upsert_candidate" THEN 2
    ELSE 3

records_failure(entry) ==
    \/ "status" \in DOMAIN entry.details /\ entry.details.status \notin {"success"}
    \/ /\ "confirmed_slot" \in DOMAIN entry.details
       /\ entry.details.confirmed_slot = "No slots available"

\* C8: a collaborator call that returned false or raised shows in what
\* process_workflow returns: ok=False, or the log entry of that step records it.
C8_NoFailureDropped ==
    \A r \in Threads :
        Returned(r) =>
            \A call \in failed[r] :
                \/ result[r].ok = FALSE
                \/ /\ Len(result[r].workflow.actions) >= entry_of(call)
                   /\ records_failure(result[r].workflow.actions[entry_of(call)])

(***************************************************************************)
(* Properties of the record store under concurrent runs (SpecConcurrent).  *)
(***************************************************************************)
dict_get(d, k) == (CHOOSE p \in d : p[1] = k)[2]

\* the keys some thread is about to store under
keys_being_stored == { frame[r].candidate_id : r \in {t \in Threads : pc[t] = "upsert_store"} }

OneRecordPerKey == \A p \in _db : \A q \in _db : p[1] = q[1] => p = q

LastWriterWins ==
    /\ dict_keys(_db) = DOMAIN last_upsert
    /\ \A k \in DOMAIN last_upsert : <<k, last_upsert[k]>> \in _db

OtherKeysUntouched ==
    \A k \in dict_keys(_db) :
        k \notin keys_being_stored => /\ k \in dict_keys(_db')
                                      /\ dict_get(_db', k) = dict_get(_db, k)

\* C9: in every interleaving of the runs' upserts the store holds at most one
\* record per key, the record under a key is the one passed to the latest upsert
\* stored under it, and no step changes the record under a key it is not storing.
C9_LastWriterWins ==
    /\ [](OneRecordPerKey /\ LastWriterWins)
    /\ [][OtherKeysUntouched]_vars

\* two runs have upserted different records under one e-mail and both have returned
C9_Witness ==
    /\ \A r \in Threads : Succeeded(r)
    /\ frame["t1"].candidate_id = frame["t2"].candidate_id
    /\ frame["t1"].parsed.email # ""
    /\ frame["t1"].parsed # frame["t2"].parsed
    /\ \E r \in Threads : <<frame[r].candidate_id, frame[r].parsed>> \in _db

(***************************************************************************)
(* Properties of score_candidate (SpecScore).                              *)
(***************************************************************************)
Scored == score_result # None

candidate == score_args.parsed_resume

required == score_args.job_requirements

InUnit(f) == 0 <= f[1] /\ f[1] <= f[2]

\* 100 * (0.4*s + 0.4*e + 0.2*d) rounded to hundredths, as 10000 * (2s + 2e + d) / 5
expected_score(s, e, d) ==
    RoundDiv(10000 * (2 * s[1] * e[2] * d[2] + 2 * e[1] * s[2] * d[2] + d[1] * s[2] * e[2]),
             5 * s[2] * e[2] * d[2])

\* C4: with experience_years >= 0 and min_experience >= 0 the three ratios lie in
\* [0,1], score is round(100*(0.4*skill + 0.4*experience + 0.2*education), 2), and
\* score, skill_match and experience_match lie in [0,100].
C4_ScoreFormulaAndRange ==
    ( /\ Scored
      /\ candidate.experience_years >= 0
      /\ required.min_experience >= 0 )
    => LET s == skill_match_ratio(candidate, required)
           e == experience_match_ratio(candidate, required)
           d == education_match_ratio(candidate, required)
       IN  /\ InUnit(s) /\ InUnit(e) /\ InUnit(d)
           /\ score_result.score = expected_score(s, e, d)
           /\ score_result.score \in 0..10000
           /\ score_result.skill_match \in 0..10000
           /\ score_result.experience_match \in 0..10000

\* a candidate with more experience than required and a partial skill match
C4_Witness ==
    /\ Scored
    /\ candidate.experience_years > required.min_experience
    /\ required.min_experience > 0
    /\ score_result.skill_match \in 1..9999
    /\ score_result.score \in 1..9999

with_experience(years) == [candidate EXCEPT !.experience_years = years]

\* C5: with everything else fixed, experience_match never decreases when
\* experience_years grows, and it is 100 once experience_years >= min_experience
\* (min_experience = 0 included).
C5_ExperienceMonotone ==
    Scored =>
        /\ \A more \in ExperienceYears :
              more >= candidate.experience_years =>
                  score_candidate(with_experience(more), required).experience_match
                      >= score_result.experience_match
        /\ candidate.experience_years >= required.min_experience =>
              score_result.experience_match = 10000

\* a candidate short of the requirement, whose match grows with one more year
C5_Witness ==
    /\ Scored
    /\ candidate.experience_years \in 1..(required.min_experience - 1)
    /\ candidate.experience_years + 1 \in ExperienceYears
    /\ score_candidate(with_experience(candidate.experience_years + 1), required).experience_match
          > score_result.experience_match

\* C6: the requirement's education_level gets the rank of the first rank-table
\* keyword it contains, as the candidate's education text does, and with a required
\* rank above 0 the education ratio is min(candidate_rank / required_rank, 1).
C6_RequirementRankBySubstring ==
    Scored =>
        LET c == first_keyword_rank(Lower(candidate.education))
            r == first_keyword_rank(Lower(required.education_level))
        IN  r > 0 => score_result.explanation.education = Percent1(MinOne(<<c, r>>))

\* C7 as stated: with no required skill, skill_match is 100 for every candidate
C7_NoRequiredSkillsIsPerfect ==
    (Scored /\ required.skills = {}) => score_result.skill_match = 10000

\* C7, amended: with no required skill the ratio is 0 / max(0, 1), so skill_match
\* is 0 for every candidate skill set.
C7_NoRequiredSkillsIsZero ==
    (Scored /\ required.skills = {}) => score_result.skill_match = 0

\* a candidate with skills scored against requirements that list none
C7_Witness ==
    /\ Scored
    /\ required.skills = {}
    /\ candidate.skills # {}
    /\ score_result.skill_match = 0

(***************************************************************************)
(* Properties of the decision e-mail (SpecDecision).                       *)
(***************************************************************************)
Decided == decision_result # None

decision_is_valid ==
    /\ validate_email(decision_args.candidate_email)
    /\ Lower(Strip(decision_args.decision)) \in {"accept", "reject"}

\* C10: send_decision_email calls the e-mail service only for an address that
\* passes validate_email and a decision that is "accept" or "reject" once trimmed
\* and lower-cased; otherwise it sends nothing, does not raise and returns status
\* "error" with an error message.
C10_DecisionEmailValidated ==
    Decided =>
        /\ decision_result.calls # <<>> => decision_is_valid
        /\ ~decision_is_valid =>
              /\ decision_result.calls = <<>>
              /\ ~decision_result.raised
              /\ decision_result.result.status = "error"
              /\ decision_result.result.error # ""
              /\ decision_result.ok = FALSE

\* a request with a non-empty address that fails validate_email was answered
C10_Witness ==
    /\ Decided
    /\ decision_args.candidate_email # ""
    /\ ~validate_email(decision_args.candidate_email)
    /\ Lower(Strip(decision_args.decision)) = "accept"
    /\ decision_result.result.status = "error"

(***************************************************************************)
(* Properties of the background jobs (SpecJobs, SpecJobsFair).             *)
(***************************************************************************)
Started(j) == JOBS[j] # Absent

Terminal(j) == Started(j) /\ JOBS[j].status \in {"done", "error"}

\* the job dict a poll answered with has its terminal status and the payload of it
poll_is_complete ==
    /\ poll.job.status = "done" => has_key(poll.job, "result")
    /\ poll.job.status = "error" => has_key(poll.job, "error")

\* C11: no poll observes a terminal status without its payload: a poll that
\* sees status "done" also sees the result, one that sees "error" also sees
\* the error message, in every interleaving with the job thread.
C11_PollSeesStatusWithPayload ==
    (poll # None /\ poll.ok) => poll_is_complete

created_running ==
    \A j \in JobIds : (~Started(j) /\ Started(j)') => JOBS'[j].status = "running"

terminal_is_final ==
    \A j \in JobIds : Terminal(j) => (Started(j)' /\ JOBS'[j].status = JOBS[j].status)

\* C12: a job has status "running" from the moment its job_id exists, reaches
\* "done" or "error" when its thread is scheduled fairly, and once terminal
\* its status never changes again.
C12_RunningThenTerminalForever ==
    /\ [][created_running]_vars
    /\ [](\A j \in JobIds : Started(j) => JOBS[j].status \in {"running", "done", "error"})
    /\ \A j \in JobIds : Started(j) ~> Terminal(j)
    /\ [][terminal_is_final]_vars

\* both jobs are terminal with their threads ended, one polled while the other ran
C12_Witness ==
    /\ \A j \in JobIds : Terminal(j) /\ job_thread[j].pc = "exit"
    /\ poll # None /\ poll.ok /\ poll.job.status = "running"

\* an exception was raised inside the process_workflow call of job j
workflow_failed(j) == exc[j] # None

\* C13: a job whose workflow fails ends with status "done" and result.ok =
\* False; no job ever has status "error".
C13_FailureEndsDone ==
    \A j \in JobIds :
        /\ Started(j) => JOBS[j].status # "error"
        /\ (job_thread[j].pc = "exit" /\ workflow_failed(j)) =>
               /\ JOBS[j].status = "done"
               /\ has_key(JOBS[j], "result")
               /\ JOBS[j].result.ok = FALSE

\* one job ended after a malformed date, the other after a collaborator threw
C13_Witness ==
    \E j \in JobIds : \E k \in JobIds :
        /\ job_thread[j].pc = "exit" /\ job_thread[k].pc = "exit"
        /\ workflow_failed(j) /\ exc[j].type = "ValueError"
        /\ workflow_failed(k) /\ exc[k].type = "RuntimeError"
        /\ JOBS[j].status = "done" /\ ~JOBS[j].result.ok
        /\ JOBS[k].status = "done" /\ ~JOBS[k].result.ok

====
